---- MODULE Spec2Model ----
(***************************************************************************)
(* Verification model of andy31415/advent_of_code_2024.                   *)
(*                                                                         *)
(* Part I  : map-parse, the generic rectangular Map<T> and Map::parse.    *)
(* Part II : aoc17, the 3-bit virtual machine and the part2 search.       *)
(* Parts III to IX : the puzzle algorithms of aoc16, aoc18, aoc3, aoc2,   *)
(*           aoc7, aoc11 and aoc15; the solver being run keeps its local  *)
(*           variables in the record day.                                  *)
(*                                                                         *)
(* Text is modelled as a sequence of one-character strings.  An Option    *)
(* is modelled as a set: None is {} and Some(v) is {v}.                   *)
(***************************************************************************)
EXTENDS Integers, Sequences, FiniteSets, Bags, TLC

VARIABLES
    input,      \* map-parse: the &str handed to Map::parse
    rule,       \* map-parse: the Parseable impl T ("SomeChar" or "U32")
    st,         \* map-parse: "new" | "ok" | "err" | "panic"
    rows,       \* Map.rows
    cols,       \* Map.cols
    values,     \* Map.values : HashMap<IVec2, T>, a function on <<x, y>>
    rest,       \* the remaining &str returned next to the Map
    got,        \* what the last get_mut call returned: "Some" or "None"
    written,    \* the positions whose value was replaced through get_mut
    writes,     \* number of get_mut calls made
    iters       \* what the values_iter() calls since the last get_mut yielded

VARIABLES
    program,    \* aoc17: the parsed Program (registers, instructions, raw_program)
    build,      \* aoc17: "debug" or "release" (overflow checks on or off)
    phase,      \* aoc17: where part2 and the run that follows it stand
    final_a,    \* part2: final_a
    len,        \* part2: the loop variable len
    t,          \* part2: the loop variable t
    regs,       \* the running Program: registers.values, <<A, B, C>>
    pc,         \* the running Program: registers.pc
    out         \* the running Program: output_vec

VARIABLES
    day         \* aoc16, aoc18, aoc3, aoc2, aoc7, aoc11 or aoc15: the local
                \* variables of the solver being run, as a record

mapVars == <<input, rule, st, rows, cols, values, rest, got, written,
            writes, iters>>

vmVars == <<program, build, phase, final_a, len, t, regs, pc, out>>

vars == <<mapVars, vmVars, day>>

\* the value of day while no solver is being run
Idle == [phase |-> "idle"]

-----------------------------------------------------------------------------
(* Bounds *)

MaxLen == 4
MaxWrites == 1
MaxIters == 2
MaxProgLen == 3
MaxReg == 1
BigReg == 200
MazeSide == 2

\* side of the largest day-18 grid, and the most bytes that fall
GridSide == 2
MaxBytes == 3

\* the most fragments a day-3 text is put together from
MaxFrags == 4

\* the largest level and the longest report of day 2
MaxLevel == 6
MaxReport == 4

\* the largest target and operand and the most operands of a day-7 equation
MaxTarget == 25
MaxOperand == 4
MaxParts == 3

\* the largest of the small day-11 stones, the most blinks and calls
MaxStone == 11
MaxBlinks == 2
MaxCalls == 2

\* side of the inside of a day-15 warehouse
WarehouseSide == 2

-----------------------------------------------------------------------------
(* Part I : map-parse *)

Alphabet == {"1", "2", " ", "\n", "\r"}

Rules == {"SomeChar", "U32"}

Texts == UNION {[1..n -> Alphabet] : n \in 0..MaxLen}

Failed(i) == [ok |-> FALSE, rest |-> i]

\* tests::SomeChar::parse : any char but a newline char is one cell
SomeCharParse(s) ==
    IF s = <<>> THEN Failed(s)
    ELSE IF Head(s) \in {"\n", "\r"} THEN Failed(s)
    ELSE [ok |-> TRUE, rest |-> Tail(s), value |-> Head(s)]

IsDigit(ch) == ch \in {"0", "1", "2", "3", "4", "5", "6", "7", "8", "9"}

DigitValue(ch) ==
    CASE ch = "0" -> 0 [] ch = "1" -> 1 [] ch = "2" -> 2 [] ch = "3" -> 3
      [] ch = "4" -> 4 [] ch = "5" -> 5 [] ch = "6" -> 6 [] ch = "7" -> 7
      [] ch = "8" -> 8 [] ch = "9" -> 9

RECURSIVE DigitsLoop(_, _, _)
\* nom complete::u32 : one or more decimal digits, read as a decimal number.
\* (Its overflow error needs ten digits, more than a text of the model has.)
DigitsLoop(s, acc, n) ==
    IF s # <<>> /\ IsDigit(Head(s))
    THEN DigitsLoop(Tail(s), acc * 10 + DigitValue(Head(s)), n + 1)
    ELSE [ok |-> n > 0, rest |-> s, value |-> acc, n |-> n]

RECURSIVE Space0(_)
\* nom space0 : zero or more spaces and tabs
Space0(s) ==
    IF s # <<>> /\ Head(s) \in {" ", "\t"} THEN Space0(Tail(s)) ELSE s

\* impl Parseable for u32 : complete::u32.terminated(space0)
U32Parse(s) ==
    LET d == DigitsLoop(s, 0, 0)
    IN  IF d.ok THEN [ok |-> TRUE, rest |-> Space0(d.rest), value |-> d.value]
        ELSE Failed(s)

\* T::parse
CellParse(r, s) == IF r = "SomeChar" THEN SomeCharParse(s) ELSE U32Parse(s)

\* nom line_ending : "\n" or "\r\n"
LineEnding(s) ==
    IF s # <<>> /\ Head(s) = "\n" THEN [ok |-> TRUE, rest |-> Tail(s)]
    ELSE IF Len(s) >= 2 /\ s[1] = "\r" /\ s[2] = "\n"
         THEN [ok |-> TRUE, rest |-> Tail(Tail(s))]
         ELSE Failed(s)

RECURSIVE Many1Loop(_, _, _)
\* the loop of many1 after its first match
Many1Loop(r, i, acc) ==
    LET c == CellParse(r, i)
    IN  IF ~c.ok THEN [ok |-> TRUE, rest |-> i, row |-> acc]
        ELSE IF Len(c.rest) = Len(i) THEN [ok |-> FALSE, rest |-> i, row |-> acc]
        ELSE Many1Loop(r, c.rest, Append(acc, c.value))

\* many0 in the place of many1: a row may be empty
Many1_Many0(r, i) ==
    LET c == CellParse(r, i)
    IN  IF ~c.ok THEN [ok |-> TRUE, rest |-> i, row |-> <<>>]
        ELSE Many1Loop(r, c.rest, <<c.value>>)

\* many1(T::parse) : one row; the row is the list of matched values, and
\* enumerate() gives the value at index k of the row the column x = k - 1
Many1(r, i) ==
    LET c == CellParse(r, i)
    IN  IF ~c.ok THEN [ok |-> FALSE, rest |-> i, row |-> <<>>]
        ELSE Many1Loop(r, c.rest, <<c.value>>)

\* what separated_list1 returns as remaining text when, after the rows res,
\* no further (line_ending, row) pair can be parsed at i: the text at i,
\* the line ending included
SepRest_AfterSeparator(i) ==
    LET s == LineEnding(i) IN IF s.ok THEN s.rest ELSE i

SepRest(i) == i

RECURSIVE SepLoop(_, _, _)
\* the loop of separated_list1 after its first element
SepLoop(r, i, res) ==
    LET s == LineEnding(i)
    IN  IF ~s.ok THEN [ok |-> TRUE, rest |-> SepRest(i), all |-> res]
        ELSE LET e == Many1(r, s.rest)
             IN  IF ~e.ok THEN [ok |-> TRUE, rest |-> SepRest(i), all |-> res]
                 ELSE SepLoop(r, e.rest, Append(res, e.row))

\* separated_list0 in the place of separated_list1: no row is required
SeparatedList1_List0(r, i) ==
    LET e == Many1(r, i)
    IN  IF ~e.ok THEN [ok |-> TRUE, rest |-> i, all |-> <<>>]
        ELSE SepLoop(r, e.rest, <<e.row>>)

\* separated_list1(line_ending, many1(T::parse))
SeparatedList1(r, i) ==
    LET e == Many1(r, i)
    IN  IF ~e.ok THEN [ok |-> FALSE, rest |-> i, all |-> <<>>]
        ELSE SepLoop(r, e.rest, <<e.row>>)

\* Map::default()
MapDefault == [rows |-> 0, cols |-> 0, values |-> <<>>, panicked |-> FALSE]

\* HashMap::insert
Insert(f, k, v) == [p \in (DOMAIN f) \cup {k} |-> IF p = k THEN v ELSE f[p]]

\* the coordinates swapped
CellPos_Swapped(x, y) == <<y, x>>

\* IVec2::new(*x as i32, m.rows as i32)
CellPos(x, y) == <<x, y>>

RECURSIVE InsertRow(_, _, _, _)
\* for (x, value) in v { m.values.insert(...) }
InsertRow(f, v, k, y) ==
    IF k > Len(v) THEN f
    ELSE InsertRow(Insert(f, CellPos(k - 1, y), v[k]), v, k + 1, y)

\* the width counted one too many
ColsAfter_OffByOne(m, v) == IF m.cols = 0 THEN Len(v) + 1 ELSE m.cols

\* m.cols after the match on m.cols
ColsAfter(m, v) == IF m.cols = 0 THEN Len(v) ELSE m.cols

\* the assertion only rejects rows longer than the first
RowLengthAssertFails_OnlyLonger(m, v) == m.cols # 0 /\ m.cols < Len(v)

\* the assert_eq!(m.cols, v.len(), ...) of the fold
RowLengthAssertFails(m, v) == m.cols # 0 /\ m.cols # Len(v)

\* the row counter left alone
RowsAfter_Forgotten(m) == m.rows

\* m.rows += 1
RowsAfter(m) == m.rows + 1

\* the closure of the fold: one row v added to the map m
FoldStep(m, v) ==
    IF m.panicked THEN m
    ELSE IF RowLengthAssertFails(m, v) THEN [m EXCEPT !.panicked = TRUE]
    ELSE [rows |-> RowsAfter(m),
          cols |-> ColsAfter(m, v),
          values |-> InsertRow(m.values, v, 1, m.rows),
          panicked |-> FALSE]

RECURSIVE Fold(_, _, _)
\* all.iter().fold(Map::default(), ...)
Fold(m, all, k) ==
    IF k > Len(all) THEN m ELSE Fold(FoldStep(m, all[k]), all, k + 1)

\* Map::parse : the outcome is "err" (Err from nom), "panic" (the assertion
\* of the fold) or "ok" (a Map and the remaining text)
MapParse(r, i) ==
    LET l == SeparatedList1(r, i)
    IN  IF ~l.ok
        THEN [st |-> "err", rest |-> i, rows |-> 0, cols |-> 0, values |-> <<>>]
        ELSE LET m == Fold(MapDefault, l.all, 1)
             IN  IF m.panicked
                 THEN [st |-> "panic", rest |-> i, rows |-> 0, cols |-> 0,
                       values |-> <<>>]
                 ELSE [st |-> "ok", rest |-> l.rest, rows |-> m.rows,
                       cols |-> m.cols, values |-> m.values]

\* an inclusive upper bound
is_inside_Inclusive(pos) ==
    pos[1] >= 0 /\ pos[1] <= cols /\ pos[2] >= 0 /\ pos[2] <= rows

\* Map::is_inside
is_inside(pos) ==
    pos[1] >= 0 /\ pos[1] < cols /\ pos[2] >= 0 /\ pos[2] < rows

\* Map::row_count
row_count == rows

\* Map::col_count
col_count == cols

\* Map::get
get(pos) == IF pos \in DOMAIN values THEN {values[pos]} ELSE {}

\* positions the accessors are asked about
Positions == (-1..MaxLen) \X (-1..MaxLen)

\* positions get_mut is called with: the cells of the grid and the ring of
\* positions around it
Probes == {pos \in Positions : pos[1] <= cols /\ pos[2] <= rows}

\* the value a consumer writes through get_mut
WriteValue == IF rule = "SomeChar" THEN "Z" ELSE 9

\* an entry(pos).or_insert in the place of get_mut
GetMutResult_Inserts(f, pos, v) ==
    [some |-> TRUE, values |-> Insert(f, pos, v)]

\* Map::get_mut followed by a write through the returned reference
GetMutResult(f, pos, v) ==
    IF pos \in DOMAIN f
    THEN [some |-> TRUE, values |-> [f EXCEPT ![pos] = v]]
    ELSE [some |-> FALSE, values |-> f]

\* the hash orders a HashMap iteration is modelled with
Orders == {"forward", "backward"}

OrderKey(o, pos) ==
    IF o = "forward" THEN pos[2] * (MaxLen + 1) + pos[1]
    ELSE 0 - (pos[2] * (MaxLen + 1) + pos[1])

RECURSIVE IterSeq(_, _, _)
IterSeq(f, o, todo) ==
    IF todo = {} THEN <<>>
    ELSE LET p == CHOOSE q \in todo :
                      \A q2 \in todo : OrderKey(o, q) <= OrderKey(o, q2)
         IN  <<[pos |-> p, value |-> f[p]]>> \o IterSeq(f, o, todo \ {p})

\* Map::values_iter : every entry of the HashMap once, in hash order
values_iter(f, o) == IterSeq(f, o, DOMAIN f)

\* the virtual machine of aoc17 is not running
VmIdle ==
    /\ program = [registers |-> <<0, 0, 0>>, instructions |-> <<>>,
                  raw_program |-> <<>>]
    /\ build = "debug"
    /\ phase = "idle"
    /\ final_a = 0
    /\ len = 0
    /\ t = 0
    /\ regs = <<0, 0, 0>>
    /\ pc = 0
    /\ out = <<>>

MapInit ==
    /\ VmIdle
    /\ day = Idle
    /\ input \in Texts
    /\ rule \in Rules
    /\ st = "new"
    /\ rows = MapDefault.rows
    /\ cols = MapDefault.cols
    /\ values = MapDefault.values
    /\ rest = <<>>
    /\ got = "none"
    /\ written = {}
    /\ writes = 0
    /\ iters = <<>>

\* let (rest, map) = Map::<T>::parse(input)
Parse ==
    /\ st = "new"
    /\ LET p == MapParse(rule, input)
       IN  /\ st' = p.st
           /\ rows' = p.rows
           /\ cols' = p.cols
           /\ values' = p.values
           /\ rest' = p.rest
    /\ UNCHANGED <<input, rule, got, written, writes, iters>>
    /\ UNCHANGED <<vmVars, day>>

\* if let Some(v) = map.get_mut(&pos) { *v = WriteValue }
GetMutWrite(pos) ==
    /\ st = "ok"
    /\ writes < MaxWrites
    /\ writes' = writes + 1
    /\ LET g == GetMutResult(values, pos, WriteValue)
       IN  /\ values' = g.values
           /\ got' = IF g.some THEN "Some" ELSE "None"
           /\ written' = IF g.some THEN written \cup {pos} ELSE written
    /\ iters' = <<>>
    /\ UNCHANGED <<input, rule, st, rows, cols, rest>>
    /\ UNCHANGED <<vmVars, day>>

\* map.values_iter().collect()
ValuesIter(o) ==
    /\ st = "ok"
    /\ Len(iters) < MaxIters
    /\ iters' = Append(iters, values_iter(values, o))
    /\ UNCHANGED <<input, rule, st, rows, cols, values, rest, got, written,
                   writes>>
    /\ UNCHANGED <<vmVars, day>>

ParseNext == Parse

GridNext ==
    \/ Parse
    \/ \E pos \in Probes : GetMutWrite(pos)

MapNext ==
    \/ Parse
    \/ \E pos \in Probes : GetMutWrite(pos)
    \/ \E o \in Orders : ValuesIter(o)

\* Map::parse alone, on every text of the model
SpecParse == MapInit /\ [][ParseNext]_vars

\* a parsed Map and the writes of its consumers
SpecGrid == MapInit /\ [][GridNext]_vars

\* a parsed Map, the writes and the iterations of its consumers
Spec == MapInit /\ [][MapNext]_vars

-----------------------------------------------------------------------------
(* Part I : what the text looks like, stated without the parser *)

RECURSIVE SplitLines(_, _)
\* the lines of a text: the pieces between its line endings
SplitLines(s, cur) ==
    IF s = <<>> THEN <<cur>>
    ELSE IF LineEnding(s).ok
         THEN <<cur>> \o SplitLines(LineEnding(s).rest, <<>>)
         ELSE SplitLines(Tail(s), Append(cur, Head(s)))

Lines(s) == SplitLines(s, <<>>)

RECURSIVE CellsOf(_, _)
\* the values of the successive matches of the cell rule from the start of s
CellsOf(r, s) ==
    LET c == CellParse(r, s)
    IN  IF c.ok THEN <<c.value>> \o CellsOf(r, c.rest) ELSE <<>>

RECURSIVE AfterCells(_, _)
\* the text left where the cell rule stops matching
AfterCells(r, s) ==
    LET c == CellParse(r, s) IN IF c.ok THEN AfterCells(r, c.rest) ELSE s

\* a line made of one or more cells and nothing else
CellLine(r, line) == CellsOf(r, line) # <<>> /\ AfterCells(r, line) = <<>>

\* a text of R >= 1 lines, each made of exactly C >= 1 cells
Rectangular(r, s) ==
    LET ls == Lines(s)
    IN  \A k \in 1..Len(ls) :
            /\ CellLine(r, ls[k])
            /\ Len(CellsOf(r, ls[k])) = Len(CellsOf(r, ls[1]))

\* a text of lines each made of cells, not all of the same number of cells
Ragged(r, s) ==
    LET ls == Lines(s)
    IN  /\ \A k \in 1..Len(ls) : CellLine(r, ls[k])
        /\ \E k \in 1..Len(ls) :
               Len(CellsOf(r, ls[k])) # Len(CellsOf(r, ls[1]))

\* some line has a position at which the cell rule cannot match
UnparseableCell(r, s) ==
    \E k \in 1..Len(Lines(s)) : AfterCells(r, Lines(s)[k]) # <<>>

RECURSIVE OnlyLineEndings(_)
\* a text made of line endings only
OnlyLineEndings(s) ==
    IF s = <<>> THEN TRUE
    ELSE LineEnding(s).ok /\ OnlyLineEndings(LineEnding(s).rest)

Prefix(s, n) == SubSeq(s, 1, n)

Suffix(s, n) == SubSeq(s, n + 1, Len(s))

parsed == st # "new"

InBounds == {pos \in Positions : 0 <= pos[1] /\ pos[1] < cols
                                    /\ 0 <= pos[2] /\ pos[2] < rows}

-----------------------------------------------------------------------------
(* Part I : claims *)

\* C1: a text of R >= 1 lines on each of which the cell rule matches exactly
\* C >= 1 times parses successfully into a grid with row_count() = R and
\* col_count() = C, C being the number of matches and not of characters.
C1_Shape ==
    (parsed /\ Rectangular(rule, input)) =>
        /\ st = "ok"
        /\ row_count = Len(Lines(input))
        /\ col_count = Len(CellsOf(rule, Lines(input)[1]))

C1_Witness ==
    /\ st = "ok" /\ Rectangular(rule, input) /\ rule = "U32"
    /\ row_count = 2 /\ col_count = 1 /\ Len(Lines(input)[1]) = 2

\* C2: after a successful parse of an R x C text, every (x, y) with
\* 0 <= x < C and 0 <= y < R is inside and get((x, y)) is the value of the
\* x-th match on the y-th line.
C2_Cells ==
    (st = "ok" /\ Rectangular(rule, input) /\ writes = 0) =>
        \A y \in 0..(Len(Lines(input)) - 1) :
            \A x \in 0..(Len(CellsOf(rule, Lines(input)[1])) - 1) :
                /\ is_inside(<<x, y>>)
                /\ get(<<x, y>>) = {CellsOf(rule, Lines(input)[y + 1])[x + 1]}

C2_Witness ==
    /\ st = "ok" /\ Rectangular(rule, input) /\ writes = 0
    /\ row_count = 2 /\ col_count = 1
    /\ get(<<0, 0>>) # get(<<0, 1>>)

\* C3: on every grid (default, parsed, mutated) get(p) is Some exactly when
\* is_inside(p); a position with x < 0, x >= cols, y < 0 or y >= rows gets
\* None from get and false from is_inside.
C3_Boundary ==
    \A pos \in Positions :
        /\ (get(pos) # {}) <=> is_inside(pos)
        /\ (pos[1] < 0 \/ pos[1] >= col_count \/ pos[2] < 0
                \/ pos[2] >= row_count)
              => (get(pos) = {} /\ ~is_inside(pos))

C3_Witness ==
    /\ st = "ok" /\ written # {} /\ row_count = 2 /\ col_count = 1
    /\ get(<<1, 0>>) = {} /\ get(<<0, 2>>) = {} /\ get(<<0, 1>>) # {}

\* C4 as stated: whenever the cell rule cannot match at some position of the
\* text, construction fails with a parse error and returns no grid.
C4_Original ==
    (parsed /\ UnparseableCell(rule, input)) => st = "err"

\* C4 (amended): construction fails with a parse error exactly when the cell
\* rule cannot match at the first position of the text.  When it cannot match
\* at a later position, construction either panics on the row length
\* assertion or returns the grid of the rows before that position, together
\* with a non-empty remaining text that holds the unmatched position; the
\* grid returned is the complete grid of the consumed prefix of the text.
C4_Amended ==
    parsed =>
        /\ (st = "err") <=> ~CellParse(rule, input).ok
        /\ (st = "ok" /\ writes = 0) =>
              LET n == Len(input) - Len(rest)
              IN  /\ n >= 1
                  /\ rest = Suffix(input, n)
                  /\ Rectangular(rule, Prefix(input, n))
                  /\ row_count = Len(Lines(Prefix(input, n)))
                  /\ \A pos \in InBounds :
                         get(pos) = {CellsOf(rule,
                                       Lines(Prefix(input, n))[pos[2] + 1])
                                         [pos[1] + 1]}
                  /\ UnparseableCell(rule, input) =>
                         (rest # <<>> /\ UnparseableCell(rule, rest))

C4_Witness ==
    /\ st = "ok" /\ UnparseableCell(rule, input) /\ rest # <<>>
    /\ row_count = 1 /\ Len(Lines(input)) = 2

\* C5: a text whose lines are all made of cells but not all of the same
\* number of cells (such as "AB\nC") never yields a grid: construction
\* aborts on the row length assertion, no row is truncated or padded.
C5_RaggedPanics ==
    (parsed /\ Ragged(rule, input)) => st = "panic"

C5_Witness ==
    /\ st = "panic" /\ Ragged(rule, input) /\ rule = "SomeChar"
    /\ Len(Lines(input)) = 2
    /\ Len(Lines(input)[1]) = 2 /\ Len(Lines(input)[2]) = 1

\* C6: a write through get_mut(p) at an in-bounds p makes get(p) return the
\* written value from then on and leaves get(q) for every q # p, row_count()
\* and col_count() unchanged; get_mut at an out-of-bounds position returns
\* None and changes nothing.
C6_MutationLocality ==
    [][ /\ \A pos \in Probes :
             GetMutWrite(pos) =>
                /\ DOMAIN values' = DOMAIN values
                /\ \A q \in DOMAIN values \ {pos} : get(q)' = get(q)
                /\ IF is_inside(pos)
                   THEN got' = "Some" /\ get(pos)' = {WriteValue}
                   ELSE got' = "None" /\ values' = values
        /\ st = "ok" =>
              /\ row_count' = row_count
              /\ col_count' = col_count
              /\ \A pos \in written : get(pos)' = {WriteValue} ]_vars

C6_Witness ==
    /\ st = "ok" /\ got = "Some" /\ written = {<<0, 0>>}
    /\ row_count = 1 /\ col_count = 2
    /\ get(<<0, 0>>) = {WriteValue} /\ get(<<1, 0>>) = {CellsOf(rule, input)[2]}

\* C7: Map::parse of a text whose first position the cell rule cannot parse,
\* the empty text included, returns an error: no grid and no panic.
C7_FirstCellError ==
    (parsed /\ ~CellParse(rule, input).ok) =>
        (st = "err" /\ row_count = 0 /\ col_count = 0 /\ values = <<>>)

C7_Witness ==
    /\ st = "err" /\ input = <<>>

\* C8: one or more line endings appended to a rectangular text do not make
\* construction fail and give the same grid as without them; the remaining
\* text is exactly the unconsumed suffix of the input after the last parsed
\* row, so that consumed rows and remainder make up the whole input.
C8_TrailingLineEndings ==
    /\ \A n \in 1..Len(input) :
          LET base == Prefix(input, Len(input) - n)
              tail == Suffix(input, Len(input) - n)
          IN  (parsed /\ writes = 0 /\ Rectangular(rule, base)
                 /\ OnlyLineEndings(tail)) =>
                /\ st = "ok"
                /\ row_count = MapParse(rule, base).rows
                /\ col_count = MapParse(rule, base).cols
                /\ values = MapParse(rule, base).values
                /\ rest = tail
    /\ st = "ok" =>
          /\ Len(rest) < Len(input)
          /\ rest = Suffix(input, Len(input) - Len(rest))
          /\ Len(Lines(Prefix(input, Len(input) - Len(rest)))) = row_count

C8_Witness ==
    /\ st = "ok" /\ row_count = 1 /\ col_count = 1
    /\ input = <<"1", "\n", "\r", "\n">> /\ rest = <<"\n", "\r", "\n">>

Range(f) == {f[k] : k \in DOMAIN f}

\* the multiset of the elements of a sequence
BagOf(seq) ==
    [e \in Range(seq) |-> Cardinality({k \in DOMAIN seq : seq[k] = e})]

-----------------------------------------------------------------------------
(* Part II : aoc17 *)

\* no Map is in use
MapIdle ==
    /\ input = <<>>
    /\ rule = "SomeChar"
    /\ st = "idle"
    /\ rows = 0
    /\ cols = 0
    /\ values = <<>>
    /\ rest = <<>>
    /\ got = "none"
    /\ written = {}
    /\ writes = 0
    /\ iters = <<>>

Bytes == 0..7

\* programs of the puzzle's shape: a loop that shifts A and prints
Examples ==
    { <<0, 3, 5, 4, 3, 0>>,
      <<0, 5, 2, 3, 5, 4, 3, 0>>,
      <<0, 5, 5, 4, 2, 3, 3, 0>>,
      <<2, 4, 1, 1, 5, 5, 0, 3, 3, 0>> }

\* the raw programs of the model: every short one and the examples
RawPrograms == (UNION {[1..n -> Bytes] : n \in 1..MaxProgLen}) \cup Examples

\* the values registers B and C are parsed with: small ones and one that is
\* too large a shift amount for a u128
RegValues == (0..MaxReg) \cup {BigReg}

\* TryFrom<u8> for ComboOperand: 7 is not an operand
ValidCombo(x) == x \in 0..6

\* TryFrom<&[u8]> for Instruction
ValidInstruction(op, x) ==
    /\ op \in 0..7
    /\ (op \in {0, 2, 5, 6, 7}) => ValidCombo(x)

\* raw_program.chunks_exact(2): a trailing odd byte is dropped
Chunks(raw) == [k \in 1..(Len(raw) \div 2) |-> <<raw[2 * k - 1], raw[2 * k]>>]

\* ComboOperand::value
ComboValue(x, r) == IF x <= 3 THEN x ELSE r[x - 3]

RECURSIVE Xor(_, _)
\* the ^ of two unsigned integers
Xor(a, b) ==
    IF a = 0 THEN b
    ELSE IF b = 0 THEN a
    ELSE (((a % 2) + (b % 2)) % 2) + 2 * Xor(a \div 2, b \div 2)

\* 1 << k on u128 overflows for k >= 128: a panic in a build with overflow
\* checks, a shift by k % 128 without them
ShiftOverflows(k) == k >= 128

\* a / (1 << k) for a < 2^31, the shift amount already reduced below 128
ShiftDiv(a, k) == IF k >= 31 THEN 0 ELSE a \div (2 ^ k)

\* a / (1 << k) as the build computes it when it does not panic
DivPow2(a, k) == ShiftDiv(a, k % 128)

\* output_vec.push(output); an output vector longer than the raw program
\* cannot equal any suffix of it, so its further growth is not recorded
Push(o, v) == IF Len(o) > Len(program.raw_program) THEN o ELSE Append(o, v)

\* Registers::perform : the registers, the pc and the output after one
\* instruction <<op, x>>
Perform(r, p, op, x) ==
    CASE op = 0 -> [regs |-> <<DivPow2(r[1], ComboValue(x, r)), r[2], r[3]>>,
                    pc |-> p + 1, output |-> {}]
      [] op = 1 -> [regs |-> <<r[1], Xor(r[2], x), r[3]>>,
                    pc |-> p + 1, output |-> {}]
      [] op = 2 -> [regs |-> <<r[1], ComboValue(x, r) % 8, r[3]>>,
                    pc |-> p + 1, output |-> {}]
      [] op = 3 -> [regs |-> r,
                    pc |-> IF r[1] = 0 THEN p + 1 ELSE x, output |-> {}]
      [] op = 4 -> [regs |-> <<r[1], Xor(r[2], r[3]), r[3]>>,
                    pc |-> p + 1, output |-> {}]
      [] op = 5 -> [regs |-> r, pc |-> p + 1,
                    output |-> {ComboValue(x, r) % 8}]
      [] op = 6 -> [regs |-> <<r[1], DivPow2(r[1], ComboValue(x, r)), r[3]>>,
                    pc |-> p + 1, output |-> {}]
      [] op = 7 -> [regs |-> <<r[1], r[2], DivPow2(r[1], ComboValue(x, r))>>,
                    pc |-> p + 1, output |-> {}]

\* the instructions that shift by a combo operand
Shifts(op) == op \in {0, 6, 7}

\* self.instructions.get(self.registers.pc) is None: run() leaves its loop
Halted == pc >= Len(program.instructions)

\* the len of the last pass of the search loop of part2
LastLen_Exclusive(goal) == Len(goal) - 1

\* for len in 1..=goal.len()
LastLen(goal) == Len(goal)

\* goal.as_slice().split_at(goal.len() - len).1
SuffixOfGoal(goal, n) == SubSeq(goal, Len(goal) - n + 1, Len(goal))

\* (final_a << 3) | t
TestA(fa, tt) == fa * 8 + tt

VmInit ==
    /\ MapIdle
    /\ day = Idle
    /\ \E raw \in RawPrograms, b \in RegValues, c \in RegValues :
          program = [registers |-> <<0, b, c>>, instructions |-> <<>>,
                     raw_program |-> raw]
    /\ build \in {"debug", "release"}
    /\ phase = "input"
    /\ final_a = 0
    /\ len = 0
    /\ t = 0
    /\ regs = <<0, 0, 0>>
    /\ pc = 0
    /\ out = <<>>

\* part2: parse_input, then the first pass of both loops is entered
ParseInput ==
    /\ phase = "input"
    /\ LET ch == Chunks(program.raw_program)
       IN  IF \A k \in DOMAIN ch : ValidInstruction(ch[k][1], ch[k][2])
           THEN /\ program' = [program EXCEPT !.instructions = ch]
                /\ phase' = "search"
                /\ len' = 1
           ELSE /\ phase' = "panic"
                /\ UNCHANGED <<program, len>>
    /\ UNCHANGED <<build, final_a, t, regs, pc, out>>
    /\ UNCHANGED <<mapVars, day>>

\* part2: other = program.clone(); other.registers.values[0] = test_a
TryA ==
    /\ phase = "search"
    /\ regs' = <<TestA(final_a, t), program.registers[2], program.registers[3]>>
    /\ pc' = 0
    /\ out' = <<>>
    /\ phase' = "running"
    /\ UNCHANGED <<program, build, final_a, len, t>>
    /\ UNCHANGED <<mapVars, day>>

\* Program::run : one pass of its while loop
Step ==
    /\ phase \in {"running", "check"}
    /\ ~Halted
    /\ LET i == program.instructions[pc + 1]
       IN  IF Shifts(i[1]) /\ ShiftOverflows(ComboValue(i[2], regs))
                /\ build = "debug"
           THEN /\ phase' = "panic"
                /\ UNCHANGED <<regs, pc, out>>
           ELSE LET n == Perform(regs, pc, i[1], i[2])
                IN  /\ regs' = n.regs
                    /\ pc' = n.pc
                    /\ out' = IF n.output = {} THEN out
                              ELSE Push(out, CHOOSE v \in n.output : TRUE)
                    /\ phase' = phase
    /\ UNCHANGED <<program, build, final_a, len, t>>
    /\ UNCHANGED <<mapVars, day>>

\* part2: run() has returned; partial_output == suffix decides what follows
Compare ==
    /\ phase = "running"
    /\ Halted
    /\ LET goal == program.raw_program
       IN  IF out = SuffixOfGoal(goal, len)
           THEN /\ final_a' = TestA(final_a, t)
                /\ t' = 0
                /\ IF len >= LastLen(goal)
                   THEN phase' = "returned" /\ len' = len
                   ELSE phase' = "search" /\ len' = len + 1
           ELSE IF t < 7
                THEN /\ t' = t + 1
                     /\ phase' = "search"
                     /\ UNCHANGED <<final_a, len>>
                ELSE /\ phase' = "panic"
                     /\ UNCHANGED <<final_a, len, t>>
    /\ UNCHANGED <<program, build, regs, pc, out>>
    /\ UNCHANGED <<mapVars, day>>

\* the parsed program is started with register A set to what part2 returned
CheckStart ==
    /\ phase = "returned"
    /\ regs' = <<final_a, program.registers[2], program.registers[3]>>
    /\ pc' = 0
    /\ out' = <<>>
    /\ phase' = "check"
    /\ UNCHANGED <<program, build, final_a, len, t>>
    /\ UNCHANGED <<mapVars, day>>

\* that run has returned its output
CheckDone ==
    /\ phase = "check"
    /\ Halted
    /\ phase' = "checked"
    /\ UNCHANGED <<program, build, final_a, len, t, regs, pc, out>>
    /\ UNCHANGED <<mapVars, day>>

VmNext ==
    \/ ParseInput
    \/ TryA
    \/ Step
    \/ Compare
    \/ CheckStart
    \/ CheckDone

\* part2 of aoc17 on every program of the model, then a run of the program
\* on the value part2 returned
SpecVm == VmInit /\ [][VmNext]_vars

-----------------------------------------------------------------------------
(* Part II : claims *)

\* C10: whenever part2 returns a, the parsed program run with register A set
\* to a (B and C as parsed, pc 0) halts having output exactly the raw
\* program, in order and with nothing more.
C10_Part2Quine ==
    /\ phase = "checked" => out = program.raw_program
    /\ phase = "check" =>
          /\ Len(out) <= Len(program.raw_program)
          /\ out = SubSeq(program.raw_program, 1, Len(out))

C10_Witness ==
    /\ phase = "checked"
    /\ program.raw_program = <<0, 5, 2, 3, 5, 4, 3, 0>>
    /\ final_a = 939688
    /\ out = program.raw_program

-----------------------------------------------------------------------------
(* Part III : aoc16 *)

\* the state of every other part

Directions == {"E", "N", "S", "W"}

\* Direction::vec
Vec(d) ==
    CASE d = "E" -> <<1, 0>> [] d = "N" -> <<0, -1>>
      [] d = "S" -> <<0, 1>> [] d = "W" -> <<-1, 0>>

\* Direction::turn_left
turn_left(d) ==
    CASE d = "E" -> "N" [] d = "N" -> "W" [] d = "S" -> "E" [] d = "W" -> "S"

\* Direction::turn_right
turn_right(d) ==
    CASE d = "E" -> "S" [] d = "N" -> "E" [] d = "S" -> "W" [] d = "W" -> "N"

PosAdd(p, v) == <<p[1] + v[1], p[2] + v[2]>>

PosSub(p, v) == <<p[1] - v[1], p[2] - v[2]>>

\* the Map<Cell> of a maze given by its rows of characters
MazeOfRows(rs) ==
    [p \in {<<x, y>> : x \in 0..(Len(rs[1]) - 1), y \in 0..(Len(rs) - 1)}
        |-> rs[p[2] + 1][p[1] + 1]]

\* mazes with a choice between routes, a tie, a dead end, no route, and a
\* state found first by a short costly route and later by a long cheap one
ExampleMazes ==
    { MazeOfRows(<< <<".", ".", ".">>,
                    <<"S", "#", "E">>,
                    <<".", ".", ".">> >>),
      MazeOfRows(<< <<"S", ".", "E">> >>),
      MazeOfRows(<< <<"S", "#", "E">> >>),
      MazeOfRows(<< <<".", ".", ".", "E">>,
                    <<".", "#", ".", "#">>,
                    <<"S", ".", ".", ".">> >>),
      MazeOfRows(<< <<"#", ".", ".", ".">>,
                    <<"S", ".", "#", "E">>,
                    <<"#", ".", ".", ".">> >>),
      MazeOfRows(<< <<".", "S", ".", ".">>,
                    <<".", "#", "#", ".">>,
                    <<"E", ".", ".", ".">> >>) }

\* every square maze of side MazeSide with one Start and one End
SquareMazes ==
    LET P == (0..(MazeSide - 1)) \X (0..(MazeSide - 1))
    IN  {m \in [P -> {"#", "S", "E", "."}] :
            /\ Cardinality({p \in P : m[p] = "S"}) = 1
            /\ Cardinality({p \in P : m[p] = "E"}) = 1}

Mazes == SquareMazes \cup ExampleMazes

\* parse_input: the position of the Start cell and of the End cell
FindCell(m, c) == CHOOSE p \in DOMAIN m : m[p] = c

\* input.maze.get(&pos).unwrap_or(&Cell::Wall) != &Cell::Wall
NotWall(m, pos) == pos \in DOMAIN m /\ m[pos] # "#"

\* the first cost found for a state is kept
Improves_OnlyNew(rc, key, cost) == key \notin DOMAIN rc

\* the match on route_costs.get(&(next_pos, next_heading))
Improves(rc, key, cost) == key \notin DOMAIN rc \/ rc[key] > cost

\* one pass of the for loop over next_choices: st is the pair of to_check
\* and route_costs, c is (next_pos, next_heading, next_cost)
Relax(m, w, c) ==
    IF NotWall(m, c[1]) /\ Improves(w.route_costs, <<c[1], c[2]>>, c[3])
    THEN [to_check |-> Append(w.to_check, c),
          route_costs |-> Insert(w.route_costs, <<c[1], c[2]>>, c[3])]
    ELSE w

\* the cost of a step forward
StepCost == 1

\* the cost of a turn
TurnCost == 1000

\* next_choices
NextChoices(pos, heading, cost) ==
    << <<PosAdd(pos, Vec(heading)), heading, cost + StepCost>>,
       <<pos, turn_left(heading), cost + TurnCost>>,
       <<pos, turn_right(heading), cost + TurnCost>> >>

\* the body of the while loop once (pos, heading, cost) was popped
LoopBody(m, w, e) ==
    LET cs == NextChoices(e[1], e[2], e[3])
    IN  Relax(m, Relax(m, Relax(m, w, cs[1]), cs[2]), cs[3])

\* the least of the costs of the four headings at a position
MinOf(S) == CHOOSE c \in S : \A c2 \in S : c <= c2

\* part2: the heading of least cost at the end, N first, then S, E, W,
\* replaced on a strictly smaller cost only
BestDirection(rc, end) ==
    LET pick(best, d) == IF rc[<<end, d>>] < rc[<<end, best>>] THEN d ELSE best
    IN  pick(pick(pick("N", "S"), "E"), "W")

RECURSIVE WalkBack(_, _, _, _, _, _)
\* Input::compute_walk_back_count. current_cost - 1000 underflows for a cost
\* below 1000: a panic in a build with overflow checks; without them the
\* difference wraps to a number above every stored cost, which the negative
\* difference stands for here (neither equals a stored cost).
WalkBack(start, rc, position, direction, seen, checked) ==
    LET seen1 == seen \cup {position}
    IN  IF position = start THEN [seen |-> seen1, panicked |-> FALSE]
        ELSE LET current_cost == rc[<<position, direction>>]
                 choices == << <<PosSub(position, Vec(direction)), direction,
                                 current_cost - StepCost>>,
                               <<position, turn_left(direction),
                                 current_cost - TurnCost>>,
                               <<position, turn_right(direction),
                                 current_cost - TurnCost>> >>
                 visit(r, c) ==
                    IF r.panicked THEN r
                    ELSE IF <<c[1], c[2]>> \in DOMAIN rc
                              /\ rc[<<c[1], c[2]>>] = c[3]
                         THEN WalkBack(start, rc, c[1], c[2], r.seen, checked)
                         ELSE r
             IN  IF checked /\ (current_cost < StepCost
                                  \/ current_cost < TurnCost)
                 THEN [seen |-> seen1, panicked |-> TRUE]
                 ELSE visit(visit(visit([seen |-> seen1, panicked |-> FALSE],
                                        choices[1]), choices[2]), choices[3])

D16Init ==
    /\ MapIdle /\ VmIdle
    /\ \E m \in Mazes :
          day = [phase |-> "fill", maze |-> m,
                 start |-> FindCell(m, "S"), end |-> FindCell(m, "E"),
                 to_check |-> << <<FindCell(m, "S"), "E", 0>> >>,
                 route_costs |-> (<<FindCell(m, "S"), "E">> :> 0),
                 result |-> 0, seen |-> {}]

\* part1 / part2: one pass of while let Some(..) = to_check.pop_front()
FillStep ==
    /\ day.phase = "fill"
    /\ day.to_check # <<>>
    /\ LET w == LoopBody(day.maze,
                         [to_check |-> Tail(day.to_check),
                          route_costs |-> day.route_costs],
                         Head(day.to_check))
       IN  day' = [day EXCEPT !.to_check = w.to_check,
                              !.route_costs = w.route_costs]
    /\ UNCHANGED <<mapVars, vmVars>>

\* every heading at the end has a cost: the expect(..) calls succeed
EndCostsKnown ==
    \A d \in Directions : <<day.end, d>> \in DOMAIN day.route_costs

\* part1 after its loop: the least cost of the four headings at the end
Part1Finish ==
    /\ day.phase = "fill"
    /\ day.to_check = <<>>
    /\ IF EndCostsKnown
       THEN day' = [day EXCEPT
                      !.phase = "part1",
                      !.result = MinOf({day.route_costs[<<day.end, d>>] :
                                          d \in Directions})]
       ELSE day' = [day EXCEPT !.phase = "panic1"]
    /\ UNCHANGED <<mapVars, vmVars>>

\* part2 after its loop: the walk back from the end, seen.len()
Part2Finish(checked) ==
    /\ day.phase = "fill"
    /\ day.to_check = <<>>
    /\ IF EndCostsKnown
       THEN LET r == WalkBack(day.start, day.route_costs, day.end,
                              BestDirection(day.route_costs, day.end),
                              {}, checked)
            IN  IF r.panicked
                THEN day' = [day EXCEPT !.phase = "underflow"]
                ELSE day' = [day EXCEPT !.phase = "part2",
                                        !.seen = r.seen,
                                        !.result = Cardinality(r.seen)]
       ELSE day' = [day EXCEPT !.phase = "panic2"]
    /\ UNCHANGED <<mapVars, vmVars>>

D16Next ==
    \/ FillStep
    \/ Part1Finish
    \/ \E checked \in BOOLEAN : Part2Finish(checked)

\* part1 and part2 of aoc16 on every maze of the model
SpecD16 == D16Init /\ [][D16Next]_vars

-----------------------------------------------------------------------------
(* Part III : aoc16, routes stated without the worklist *)

\* the (position, heading) states of a maze
MazeStates(m) == {<<p, h>> : p \in {q \in DOMAIN m : m[q] # "#"},
                             h \in Directions}

\* the moves into a state s (fwd) or out of it (~fwd), with their costs
Moves(m, s, fwd) ==
    { <<IF fwd THEN <<PosSub(s[1], Vec(s[2])), s[2]>>
               ELSE <<PosAdd(s[1], Vec(s[2])), s[2]>>, StepCost>>,
      << <<s[1], turn_left(s[2])>>, TurnCost>>,
      << <<s[1], turn_right(s[2])>>, TurnCost>> }

\* one round of route extension: d gives the least cost of the routes of at
\* most k moves, the result that of the routes of at most k + 1 moves
Extend(m, d, fwd) ==
    LET cand(s) == (IF s \in DOMAIN d THEN {d[s]} ELSE {})
                     \cup {d[mv[1]] + mv[2] :
                             mv \in {x \in Moves(m, s, fwd) : x[1] \in DOMAIN d}}
    IN  [s \in {x \in MazeStates(m) : cand(x) # {}} |-> MinOf(cand(s))]

RECURSIVE AllRoutes(_, _, _)
\* the least cost over the routes of any number of moves
AllRoutes(m, d, fwd) ==
    LET n == Extend(m, d, fwd) IN IF n = d THEN d ELSE AllRoutes(m, n, fwd)

\* least cost of a route from Start facing East to every state
FromStart(m) == AllRoutes(m, (<<FindCell(m, "S"), "E">> :> 0), TRUE)

\* least cost of a route from every state to the End, any heading there
ToEnd(m) ==
    AllRoutes(m, [s \in {FindCell(m, "E")} \X Directions |-> 0], FALSE)

EndReachable(m) ==
    \E h \in Directions : <<FindCell(m, "E"), h>> \in DOMAIN FromStart(m)

\* least cost of a route from Start facing East to End
BestCost(m) ==
    MinOf({FromStart(m)[s] : s \in {x \in DOMAIN FromStart(m) :
                                        x[1] = FindCell(m, "E")}})

\* the tiles that lie on at least one route of least cost
BestTiles(m) ==
    {s[1] : s \in {x \in DOMAIN FromStart(m) \cap DOMAIN ToEnd(m) :
                      FromStart(m)[x] + ToEnd(m)[x] = BestCost(m)}}

RECURSIVE SumCosts(_, _, _)
\* the sum of the costs of the states S, big standing for a missing cost
SumCosts(rc, S, big) ==
    IF S = {} THEN 0
    ELSE LET x == CHOOSE y \in S : TRUE
         IN  (IF x \in DOMAIN rc THEN rc[x] ELSE big)
                + SumCosts(rc, S \ {x}, big)

\* a number that falls with every pass of the worklist loop
Measure(w) ==
    3 * SumCosts(w.route_costs, MazeStates(w.maze),
                 TurnCost * (Cardinality(MazeStates(w.maze)) + 1))
      + Len(w.to_check)

-----------------------------------------------------------------------------
(* Part III : claims on aoc16 *)

\* C11: when the worklist is empty route_costs holds the least cost of
\* every reachable (position, heading) state, part1 returns the least cost
\* of a route from Start facing East to End (steps + 1000 x turns), and the
\* worklist loop terminates: every pass lowers a natural number.
C11_Part1LeastCost ==
    /\ [](/\ (day.phase = "fill" /\ day.to_check = <<>>) =>
                day.route_costs = FromStart(day.maze)
          /\ day.phase = "part1" =>
                (EndReachable(day.maze) /\ day.result = BestCost(day.maze))
          /\ day.phase = "panic1" => ~EndReachable(day.maze))
    /\ [][FillStep => (Measure(day') < Measure(day) /\ Measure(day') >= 0)]_vars

C11_Witness ==
    /\ day.phase = "part1"
    /\ day.maze = MazeOfRows(<< <<".", ".", ".", "E">>,
                                <<".", "#", ".", "#">>,
                                <<"S", ".", ".", ".">> >>)
    /\ day.result = BestCost(day.maze)

\* C12: for every maze in which End is reachable part2 returns the number
\* of distinct tiles on at least one route of least cost from Start facing
\* East to End, and the walk back raises no arithmetic underflow.
C12_Part2BestTiles ==
    /\ day.phase = "part2" => day.result = Cardinality(BestTiles(day.maze))
    /\ day.phase # "underflow"


-----------------------------------------------------------------------------
(* Part IV : aoc18, the first byte that cuts the exit off *)


\* the four steps of the successors closure, in its order
Steps18 == << <<0, 1>>, <<0, -1>>, <<1, 0>>, <<-1, 0>> >>

\* Grid built by has_path: the first simulation_size positions are blocks
GridOf(positions, grid_size, simulation_size) ==
    [rows |-> grid_size[2], cols |-> grid_size[1],
     blocks |-> {positions[i] : i \in 1..(IF simulation_size < Len(positions)
                                          THEN simulation_size
                                          ELSE Len(positions))}]

\* the filter of the successors closure
Passable(g, p) ==
    /\ p[1] >= 0 /\ p[1] < g.cols /\ p[2] >= 0 /\ p[2] < g.rows
    /\ p \notin g.blocks

\* the successors closure of has_path
Successors18(g, start) ==
    {PosAdd(start, Steps18[i]) : i \in 1..4} \cap
        {p \in (0..(g.cols - 1)) \X (0..(g.rows - 1)) : Passable(g, p)}

RECURSIVE Explore(_, _)
\* the nodes dijkstra can expand from the nodes found so far
Explore(g, found) ==
    LET more == found \cup UNION {Successors18(g, n) : n \in found}
    IN  IF more = found THEN found ELSE Explore(g, more)

\* let goal = IVec2::new(g.rows - 1, g.cols - 1)
Goal18(g) == <<g.rows - 1, g.cols - 1>>

\* Input::has_path: dijkstra from (0,0) finds a node equal to goal
has_path(positions, grid_size, simulation_size) ==
    LET g == GridOf(positions, grid_size, simulation_size)
    IN  Goal18(g) \in Explore(g, {<<0, 0>>})

\* the byte lists and grid sizes part2 is called with
Cells18 == (0..(GridSide - 1)) \X (0..(GridSide - 1))

RECURSIVE SeqsUpTo(_, _)
\* the non-empty sequences over S of length at most n
SeqsUpTo(S, n) ==
    IF n = 0 THEN {}
    ELSE LET shorter == SeqsUpTo(S, n - 1)
         IN  {<<x>> : x \in S} \cup shorter
                \cup {Append(q, x) : q \in shorter, x \in S}

GridSizes == (1..GridSide) \X (1..GridSide)

\* part2 after parse_input: low = 0, high = len + 1
D18Init ==
    /\ MapIdle /\ VmIdle
    /\ \E positions \in SeqsUpTo(Cells18, MaxBytes), grid_size \in GridSizes :
          day = [phase |-> "search", positions |-> positions,
                 grid_size |-> grid_size, low |-> 0,
                 high |-> Len(positions) + 1, result |-> <<>>]

\* one pass of while (high - low) > 1
BisectStep ==
    /\ day.phase = "search"
    /\ day.high - day.low > 1
    /\ LET mid == (day.high + day.low) \div 2
       IN  day' = IF has_path(day.positions, day.grid_size, mid)
                  THEN [day EXCEPT !.low = mid]
                  ELSE [day EXCEPT !.high = mid]
    /\ UNCHANGED <<mapVars, vmVars>>

\* Ok(*input.positions.get(low).expect("valid index")), index from 0
Part2Return ==
    /\ day.phase = "search"
    /\ ~(day.high - day.low > 1)
    /\ day' = IF day.low < Len(day.positions)
              THEN [day EXCEPT !.phase = "done",
                               !.result = day.positions[day.low + 1]]
              ELSE [day EXCEPT !.phase = "panic"]
    /\ UNCHANGED <<mapVars, vmVars>>

D18Next == BisectStep \/ Part2Return

SpecD18 == D18Init /\ [][D18Next]_vars

\* -- what the answer should be --

\* the exit corner of a grid of cols columns and rows rows
ExitCorner(grid_size) == <<grid_size[1] - 1, grid_size[2] - 1>>

\* the cells free after the first k bytes have fallen
FreeAfter(positions, grid_size, k) ==
    {p \in (0..(grid_size[1] - 1)) \X (0..(grid_size[2] - 1)) :
        \A i \in 1..k : positions[i] # p}

RECURSIVE Flood(_, _)
\* the cells that steps into free neighbouring cells lead to
Flood(free, reached) ==
    LET near == {p \in free : \E q \in reached :
                    (IF p[1] > q[1] THEN p[1] - q[1] ELSE q[1] - p[1])
                  + (IF p[2] > q[2] THEN p[2] - q[2] ELSE q[2] - p[2]) = 1}
    IN  IF near \subseteq reached THEN reached
        ELSE Flood(free, reached \cup near)

\* the exit corner can be reached from (0,0) after the first k bytes
PathAfter(positions, grid_size, k) ==
    ExitCorner(grid_size) \in Flood(FreeAfter(positions, grid_size, k),
                                    {<<0, 0>>})

\* the indexes k, from 0, with a path after k bytes and none after k + 1
CutIndexes(positions, grid_size) ==
    {k \in 0..(Len(positions) - 1) :
        /\ PathAfter(positions, grid_size, k)
        /\ ~PathAfter(positions, grid_size, k + 1)}

-----------------------------------------------------------------------------
(* Part IV : claims on aoc18 *)

\* C13: when some prefix of the bytes cuts the exit corner off from (0,0),
\* part2 returns the position at the index k for which a path exists after
\* the first k bytes and none exists after the first k + 1.
C13_FirstBlockingByte ==
    (day.phase \in {"done", "panic"}
        /\ CutIndexes(day.positions, day.grid_size) # {})
    => /\ day.phase = "done"
       /\ \E k \in CutIndexes(day.positions, day.grid_size) :
             day.result = day.positions[k + 1]

-----------------------------------------------------------------------------
(* Part V : aoc3, multiplications switched on and off *)


LitMul == <<"m", "u", "l", "(">>
LitDo == <<"d", "o", "(", ")">>
LitDont == <<"d", "o", "n", "'", "t", "(", ")">>

\* s starts with the literal lit
StartsWith(s, lit) ==
    Len(s) >= Len(lit) /\ SubSeq(s, 1, Len(lit)) = lit

\* s without its first n characters
Drop(s, n) == SubSeq(s, n + 1, Len(s))

\* mul\((?<left>\d+),(?<right>\d+)\) matched at the start of s, with
\* Multiplication::try_from parsing the two groups
MulMatch(s) ==
    IF ~StartsWith(s, LitMul) THEN [ok |-> FALSE]
    ELSE LET l == DigitsLoop(Drop(s, 4), 0, 0)
         IN  IF ~l.ok \/ ~StartsWith(l.rest, <<",">>) THEN [ok |-> FALSE]
             ELSE LET r == DigitsLoop(Tail(l.rest), 0, 0)
                  IN  IF ~r.ok \/ ~StartsWith(r.rest, <<")">>)
                      THEN [ok |-> FALSE]
                      ELSE [ok |-> TRUE, rest |-> Tail(r.rest),
                            item |-> [kind |-> "Mul", left |-> l.value,
                                      right |-> r.value]]

\* the alternation without its don't() branch
MatchAt_NoDont(s) ==
    LET m == MulMatch(s)
    IN  IF m.ok THEN m
        ELSE IF StartsWith(s, LitDo)
             THEN [ok |-> TRUE, rest |-> Drop(s, 4), item |-> [kind |-> "Do"]]
             ELSE [ok |-> FALSE]

\* the expression of input2 matched at the start of s, and
\* Instruction::try_from on the match
MatchAt(s) ==
    LET m == MulMatch(s)
    IN  IF m.ok THEN m
        ELSE IF StartsWith(s, LitDo)
             THEN [ok |-> TRUE, rest |-> Drop(s, 4), item |-> [kind |-> "Do"]]
        ELSE IF StartsWith(s, LitDont)
             THEN [ok |-> TRUE, rest |-> Drop(s, 7), item |-> [kind |-> "Dont"]]
             ELSE [ok |-> FALSE]

RECURSIVE input2(_)
\* parse::input2 : captures_iter, the successive leftmost matches
input2(s) ==
    IF s = <<>> THEN <<>>
    ELSE LET m == MatchAt(s)
         IN  IF m.ok THEN <<m.item>> \o input2(m.rest) ELSE input2(Tail(s))

\* Multiplication::value
value(m) == m.left * m.right

\* the pieces the texts of the model are put together from
Fragments ==
    { <<"m", "u", "l", "(", "2", ",", "3", ")">>,
      <<"m", "u", "l", "(", "4">>,
      <<"5", ",", "1", "0", ")">>,
      LitDo, LitDont,
      <<"d", "o">>, <<"n", "'", "t", "(", ")">> }

RECURSIVE Concat(_)
Concat(ss) == IF ss = <<>> THEN <<>> ELSE Head(ss) \o Concat(Tail(ss))

Texts3 == {Concat(fs) : fs \in SeqsUpTo(Fragments, MaxFrags)}

\* part2 before the loop
D3Init ==
    /\ MapIdle /\ VmIdle
    /\ \E s \in Texts3 :
          day = [phase |-> "parse", s |-> s, items |-> <<>>, next |-> 1,
                on |-> TRUE, result |-> 0]

\* parse::input2(s).items
ParseItems ==
    /\ day.phase = "parse"
    /\ day' = [day EXCEPT !.phase = "loop", !.items = input2(day.s)]
    /\ UNCHANGED <<mapVars, vmVars>>

\* one pass of the for loop of part2
LoopItem ==
    /\ day.phase = "loop"
    /\ day.next <= Len(day.items)
    /\ LET item == day.items[day.next]
       IN  day' = [day EXCEPT
                    !.next = @ + 1,
                    !.on = CASE item.kind = "Do" -> TRUE
                             [] item.kind = "Dont" -> FALSE
                             [] OTHER -> @,
                    !.result = IF item.kind = "Mul" /\ day.on
                               THEN @ + value(item) ELSE @]
    /\ UNCHANGED <<mapVars, vmVars>>

\* the result of part2
Part2Result ==
    /\ day.phase = "loop"
    /\ day.next > Len(day.items)
    /\ day' = [day EXCEPT !.phase = "done"]
    /\ UNCHANGED <<mapVars, vmVars>>

D3Next == ParseItems \/ LoopItem \/ Part2Result

SpecD3 == D3Init /\ [][D3Next]_vars

\* -- the instructions of a text, by position --

\* the literal lit stands at position i of the text
LitAt(txt, i, lit) ==
    i + Len(lit) - 1 <= Len(txt) /\ SubSeq(txt, i, i + Len(lit) - 1) = lit

\* positions a..b of the text are one digit or more
DigitRun(txt, a, b) ==
    a <= b /\ \A k \in a..b : IsDigit(txt[k])

RECURSIVE Decimal(_)
\* the number a run of digits writes
Decimal(ds) ==
    IF ds = <<>> THEN 0
    ELSE 10 * Decimal(SubSeq(ds, 1, Len(ds) - 1)) + DigitValue(ds[Len(ds)])

\* the mul(a,b) instructions of the text: position i, comma at c, bracket at e
MulsOf(txt) ==
    UNION { {<<i, c, e>> : c \in {c \in (i + 5)..Len(txt) :
                                    DigitRun(txt, i + 4, c - 1) /\ txt[c] = ","},
                          e \in {e \in (i + 7)..Len(txt) : txt[e] = ")"}}
            \cap {m \in (1..Len(txt)) \X (1..Len(txt)) \X (1..Len(txt)) :
                        DigitRun(txt, m[2] + 1, m[3] - 1)}
            : i \in {i \in 1..Len(txt) : LitAt(txt, i, LitMul)} }

\* the positions of the do() and don't() instructions before position i
SwitchesBefore(txt, i) ==
    {p \in 1..(i - 1) : LitAt(txt, p, LitDo) \/ LitAt(txt, p, LitDont)}

\* the most recent do()/don't() before i is do(), or there is none
EnabledAt(txt, i) ==
    LET sw == SwitchesBefore(txt, i)
    IN  sw = {} \/ LitAt(txt, CHOOSE p \in sw : \A q \in sw : q <= p, LitDo)

RECURSIVE SumProducts(_, _)
SumProducts(txt, ms) ==
    IF ms = {} THEN 0
    ELSE LET m == CHOOSE x \in ms : TRUE
         IN  Decimal(SubSeq(txt, m[1] + 4, m[2] - 1))
                * Decimal(SubSeq(txt, m[2] + 1, m[3] - 1))
               + SumProducts(txt, ms \ {m})

\* the sum of the products of the enabled multiplications of the text
EnabledSum(txt) == SumProducts(txt, {m \in MulsOf(txt) : EnabledAt(txt, m[1])})

-----------------------------------------------------------------------------
(* Part V : claims on aoc3 *)

\* C14: part2 adds the product of a mul(a,b) exactly when the most recent
\* do()/don't() before it in the text is do() or there is none; the loop keeps
\* this for the text read so far and the result is the sum of the enabled
\* products.
C14_DoDontGating ==
    /\ [](day.phase = "done" => day.result = EnabledSum(day.s))
    /\ [][LoopItem =>
            LET item == day.items[day.next]
            IN  /\ (item.kind = "Mul" /\ day.on)
                    => day'.result = day.result + item.left * item.right
                /\ (item.kind # "Mul" \/ ~day.on) => day'.result = day.result]_vars

\* a text with a multiplication switched off and one switched on again has
\* been read to its end
C14_Witness ==
    /\ day.phase = "done"
    /\ day.s = Concat(<< LitDont, <<"m", "u", "l", "(", "2", ",", "3", ")">>,
                        LitDo, <<"m", "u", "l", "(", "2", ",", "3", ")">> >>)
    /\ day.result = 6

-----------------------------------------------------------------------------
(* Part VI : aoc2, reports made safe by one removal *)


\* u32::abs_diff
abs_diff(a, b) == IF a > b THEN a - b ELSE b - a

\* is_safe(a, b)
is_safe(a, b) ==
    IF abs_diff(b, a) > 3 THEN "OutOfRange"
    ELSE IF a < b THEN "Up"
    ELSE IF a > b THEN "Down"
    ELSE "OutOfRange"

\* zip(vec.iter(), vec.iter().skip(1)).map(is_safe)
StatesOf(vec) == [i \in 1..(Len(vec) - 1) |-> is_safe(vec[i], vec[i + 1])]

RECURSIVE SafeLoop(_, _, _)
\* the for loop of is_safe_level: safety is an Option, {} for None
SafeLoop(sts, k, safety) ==
    IF k > Len(sts) THEN TRUE
    ELSE IF safety = {} THEN SafeLoop(sts, k + 1, {sts[k]})
    ELSE IF safety # {sts[k]} THEN FALSE
    ELSE SafeLoop(sts, k + 1, safety)

\* is_safe_level(vec)
is_safe_level(vec) == SafeLoop(StatesOf(vec), 1, {})

\* Vec::remove(idx), idx counted from 0
RemoveAt(vec, idx) ==
    SubSeq(vec, 1, idx) \o SubSeq(vec, idx + 2, Len(vec))

\* safe_level_if_remove(vec, idx)
safe_level_if_remove(vec, idx) ==
    IF idx >= Len(vec) THEN FALSE ELSE is_safe_level(RemoveAt(vec, idx))

\* enumerate(states.iter()).filter(== kind): the indexes, from 0, in order
IndexesOf(sts, kind) ==
    LET sel == {i \in 1..Len(sts) : sts[i] = kind}
        RECURSIVE inorder(_)
        inorder(S) == IF S = {} THEN <<>>
                      ELSE LET m == CHOOSE x \in S : \A y \in S : x <= y
                           IN  <<m - 1>> \o inorder(S \ {m})
    IN  inorder(sel)

\* is_safe_by_removal(vec)
is_safe_by_removal(vec) ==
    LET states == StatesOf(vec)
        ups == IndexesOf(states, "Up")
        downs == IndexesOf(states, "Down")
        ranges == IndexesOf(states, "OutOfRange")
    IN  IF Len(ranges) = 1
        THEN safe_level_if_remove(vec, ranges[1])
                \/ safe_level_if_remove(vec, ranges[1] + 1)
        ELSE IF Len(ranges) = 2
        THEN IF ranges[2] # ranges[1] + 1 THEN FALSE
             ELSE safe_level_if_remove(vec, ranges[2])
        ELSE IF Len(ranges) > 2 THEN FALSE
        ELSE IF Len(ups) = 1
        THEN safe_level_if_remove(vec, ups[1])
                \/ safe_level_if_remove(vec, ups[1] + 1)
        ELSE IF Len(downs) = 1
        THEN safe_level_if_remove(vec, downs[1])
                \/ safe_level_if_remove(vec, downs[1] + 1)
        ELSE is_safe_level(vec)

\* the reports of the model: one level or more (separated_list1)
Reports == SeqsUpTo(1..MaxLevel, MaxReport)

\* a second report for inputs of two lines
SecondReports == { <<7, 6, 4, 2, 1>>, <<1, 2, 7, 8, 9>>, <<1, 3, 2, 4, 5>> }

\* part2 after input(s): data.levels
D2Init ==
    /\ MapIdle /\ VmIdle
    /\ \E r \in Reports, more \in {<<>>} \cup {<<x>> : x \in SecondReports} :
          day = [phase |-> "count", levels |-> <<r>> \o more, next |-> 1,
                count |-> 0]

\* filter(|x| is_safe_by_removal(x)).count(), one report at a time
CountReport ==
    /\ day.phase = "count"
    /\ day.next <= Len(day.levels)
    /\ day' = [day EXCEPT !.next = @ + 1,
                        !.count = IF is_safe_by_removal(day.levels[day.next])
                                  THEN @ + 1 ELSE @]
    /\ UNCHANGED <<mapVars, vmVars>>

\* the result of part2
Part2Count ==
    /\ day.phase = "count"
    /\ day.next > Len(day.levels)
    /\ day' = [day EXCEPT !.phase = "done"]
    /\ UNCHANGED <<mapVars, vmVars>>

D2Next == CountReport \/ Part2Count

SpecD2 == D2Init /\ [][D2Next]_vars

\* -- what safe means --

\* all adjacent steps go the same way and differ by 1 to 3
Safe(vec) ==
    \/ \A i \in 1..(Len(vec) - 1) :
          vec[i + 1] - vec[i] \in 1..3
    \/ \A i \in 1..(Len(vec) - 1) :
          vec[i] - vec[i + 1] \in 1..3

\* safe, or safe after removing exactly one level
SafeByRemoval(vec) ==
    \/ Safe(vec)
    \/ \E k \in 1..Len(vec) :
          Safe([i \in 1..(Len(vec) - 1) |-> IF i < k THEN vec[i] ELSE vec[i + 1]])

-----------------------------------------------------------------------------
(* Part VI : claims on aoc2 *)

\* C15: is_safe_by_removal is true exactly for the reports that are safe or
\* become safe when one level is removed, so part2 counts a report exactly
\* when trying every single removal would.
C15_SafeByRemoval ==
    [][CountReport =>
          (day'.count = day.count + 1 <=> SafeByRemoval(day.levels[day.next]))]_vars

-----------------------------------------------------------------------------
(* Part VII : aoc7, equations solved backwards from the target *)


\* substract(target, x): an Option, {} for None
substract(target, x) == IF target < x THEN {} ELSE {target - x}

\* divide(target, x) for x # 0; target % 0 panics before anything is returned
divide(target, x) == IF target % x # 0 THEN {} ELSE {target \div x}

DigitChar(n) ==
    CASE n = 0 -> "0" [] n = 1 -> "1" [] n = 2 -> "2" [] n = 3 -> "3"
      [] n = 4 -> "4" [] n = 5 -> "5" [] n = 6 -> "6" [] n = 7 -> "7"
      [] n = 8 -> "8" [] n = 9 -> "9"

RECURSIVE to_string(_)
\* u64::to_string
to_string(n) ==
    IF n < 10 THEN <<DigitChar(n)>>
    ELSE Append(to_string(n \div 10), DigitChar(n % 10))

\* str::ends_with
ends_with(ts, xs) ==
    Len(ts) >= Len(xs) /\ SubSeq(ts, Len(ts) - Len(xs) + 1, Len(ts)) = xs

\* remove_suffix(target, x)
remove_suffix(target, x) ==
    LET ts == to_string(target)
        xs == to_string(x)
    IN  IF ~ends_with(ts, xs) \/ Len(ts) <= Len(xs) THEN {}
        ELSE {DigitsLoop(SubSeq(ts, 1, Len(ts) - Len(xs)), 0, 0).value}

\* the conversions part1 and part2 pass to solvable_by
Conversions(part) ==
    IF part = 1 THEN <<"substract", "divide">>
    ELSE <<"substract", "divide", "remove_suffix">>

\* c(*x, *item) for a conversion that does not panic
Convert(c, x, item) ==
    CASE c = "substract" -> substract(x, item)
      [] c = "divide" -> divide(x, item)
      [] c = "remove_suffix" -> remove_suffix(x, item)

\* a call c(*x, *item) of the closure panics: divide computes target % 0
ConvertPanics(convs, h, item) ==
    h # {} /\ item = 0 /\ \E i \in 1..Len(convs) : convs[i] = "divide"

\* the closure of the fold: every conversion applied to every element of h
FoldClosure(convs, h, item) ==
    UNION {Convert(convs[i], x, item) : i \in 1..Len(convs), x \in h}

\* the equations of the model: a target and one part or more
D7Init ==
    /\ MapIdle /\ VmIdle
    /\ \E target \in 0..MaxTarget, parts \in SeqsUpTo(0..MaxOperand, MaxParts),
          part \in {1, 2} :
          day = [phase |-> "fold", target |-> target, parts |-> parts,
                part |-> part, h |-> {target}, k |-> Len(parts),
                result |-> FALSE]

\* one item of self.parts.iter().skip(1).rev() goes through the fold
FoldItem ==
    /\ day.phase = "fold"
    /\ day.k > 1
    /\ LET item == day.parts[day.k]
           convs == Conversions(day.part)
       IN  day' = IF ConvertPanics(convs, day.h, item)
                 THEN [day EXCEPT !.phase = "panic"]
                 ELSE [day EXCEPT !.k = @ - 1,
                                 !.h = FoldClosure(convs, day.h, item)]
    /\ UNCHANGED <<mapVars, vmVars>>

\* .contains(self.parts.first())
Contains ==
    /\ day.phase = "fold"
    /\ day.k = 1
    /\ day' = [day EXCEPT !.phase = "done", !.result = day.parts[1] \in day.h]
    /\ UNCHANGED <<mapVars, vmVars>>

D7Next == FoldItem \/ Contains

SpecD7 == D7Init /\ [][D7Next]_vars

\* -- the equation read forwards --

RECURSIVE Pow10(_)
Pow10(n) == IF n = 0 THEN 1 ELSE 10 * Pow10(n - 1)

\* the decimal digits of a followed by those of b
Concatenate(a, b) == a * Pow10(Len(to_string(b))) + b

RECURSIVE Forward(_, _, _)
\* the values the first k parts can give, evaluated left to right
Forward(parts, k, part) ==
    IF k = 1 THEN {parts[1]}
    ELSE LET before == Forward(parts, k - 1, part)
         IN  {a + parts[k] : a \in before}
                \cup {a * parts[k] : a \in before}
                \cup (IF part = 2
                      THEN {Concatenate(a, parts[k]) : a \in before} ELSE {})

\* some assignment of operators makes the parts equal the target
Solvable(target, parts, part) == target \in Forward(parts, Len(parts), part)

-----------------------------------------------------------------------------
(* Part VII : claims on aoc7 *)

\* C16: for all non-negative operands solvable_by never panics and returns
\* true exactly when some assignment of + and x (and, in part 2, of
\* concatenation) between the parts, evaluated left to right, gives the target.
C16_BackwardSearch ==
    /\ day.phase # "panic"
    /\ day.phase = "done" => day.result = Solvable(day.target, day.parts, day.part)

-----------------------------------------------------------------------------
(* Part VIII : aoc11, stones counted through a cache *)


RECURSIVE Widen(_, _, _, _)
\* while high < stone { half *= 10; low *= 100; high *= 100; }
Widen(low, high, half, stone) ==
    IF high < stone THEN Widen(low * 100, high * 100, half * 10, stone)
    ELSE [low |-> low, high |-> high, half |-> half]

RECURSIVE multiply(_, _, _)
\* BlinkCache::multiply: the value returned and the cache it leaves
multiply(cache, stone, blinks) ==
    IF <<stone, blinks>> \in DOMAIN cache
    THEN [value |-> cache[<<stone, blinks>>], cache |-> cache]
    ELSE IF blinks = 0 THEN [value |-> 1, cache |-> cache]
    ELSE IF stone = 0
    THEN LET r == multiply(cache, 1, blinks - 1)
         IN  [value |-> r.value,
              cache |-> Insert(r.cache, <<stone, blinks>>, r.value)]
    ELSE LET w == Widen(10, 100, 10, stone)
         IN  IF stone >= w.low
             THEN LET a == multiply(cache, stone % w.half, blinks - 1)
                      b == multiply(a.cache, stone \div w.half, blinks - 1)
                  IN  [value |-> a.value + b.value,
                       cache |-> Insert(b.cache, <<stone, blinks>>,
                                        a.value + b.value)]
             ELSE LET r == multiply(cache, stone * 2024, blinks - 1)
                  IN  [value |-> r.value,
                       cache |-> Insert(r.cache, <<stone, blinks>>, r.value)]

\* the stones multiply is called with
Stones == (0..MaxStone) \cup {99, 100, 101, 1000, 10000}

\* BlinkCache::default()
D11Init ==
    /\ MapIdle /\ VmIdle
    /\ day = [phase |-> "new", cache |-> <<>>, calls |-> 0, stone |-> 0,
              blinks |-> 0, value |-> 0]

\* a call cache.multiply(stone, blinks)
Multiply ==
    /\ day.calls < MaxCalls
    /\ \E stone \in Stones, blinks \in 0..MaxBlinks :
          LET r == multiply(day.cache, stone, blinks)
          IN  day' = [phase |-> "called", cache |-> r.cache,
                      calls |-> day.calls + 1, stone |-> stone,
                      blinks |-> blinks, value |-> r.value]
    /\ UNCHANGED <<mapVars, vmVars>>

D11Next == Multiply

SpecD11 == D11Init /\ [][D11Next]_vars

\* -- the rules of a blink, on the decimal digits --

\* the stones one stone becomes in one blink
BlinkOnce(stone) ==
    LET ds == to_string(stone)
        n == Len(ds)
    IN  IF stone = 0 THEN <<1>>
        ELSE IF n % 2 = 0
             THEN << DigitsLoop(SubSeq(ds, 1, n \div 2), 0, 0).value,
                     DigitsLoop(SubSeq(ds, n \div 2 + 1, n), 0, 0).value >>
             ELSE << stone * 2024 >>

RECURSIVE StoneCount(_, _)
\* the number of stones one stone becomes after blinks blinks
StoneCount(stone, blinks) ==
    IF blinks = 0 THEN 1
    ELSE LET next == BlinkOnce(stone)
         IN  IF Len(next) = 1 THEN StoneCount(next[1], blinks - 1)
             ELSE StoneCount(next[1], blinks - 1)
                    + StoneCount(next[2], blinks - 1)

-----------------------------------------------------------------------------
(* Part VIII : claims on aoc11 *)

\* C17: whatever earlier calls have put in the cache, multiply(stone, blinks)
\* returns the number of stones the stone becomes after that many blinks.
C17_MultiplyCounts ==
    day.phase = "called" => day.value = StoneCount(day.stone, day.blinks)

-----------------------------------------------------------------------------
(* Part IX : aoc15, the robot pushing boxes *)


Instructions == {"Left", "Down", "Up", "Right"}

\* Instruction::push_direction
push_direction(i) ==
    CASE i = "Left" -> <<-1, 0>>
      [] i = "Down" -> <<0, 1>>
      [] i = "Up" -> <<0, -1>>
      [] i = "Right" -> <<1, 0>>

RECURSIVE can_push(_, _, _)
\* Input::can_push: "true", "false", or "panic" for a failed expect or the
\* panic on Cell::Robot
can_push(map, pos, direction) ==
    LET both(a, b) == IF a = "panic" THEN "panic"
                      ELSE IF a = "false" THEN "false" ELSE b
    IN  IF pos \notin DOMAIN map THEN "panic"
        ELSE CASE map[pos] = "Wall" -> "false"
               [] map[pos] = "Robot" -> "panic"
               [] map[pos] = "Box" ->
                    can_push(map, PosAdd(pos, direction), direction)
               [] map[pos] = "Empty" -> "true"
               [] map[pos] = "LargeBoxLeft" ->
                    IF direction[2] # 0
                    THEN both(can_push(map, PosAdd(pos, direction), direction),
                              can_push(map, PosAdd(PosAdd(pos, <<1, 0>>),
                                                   direction), direction))
                    ELSE can_push(map, PosAdd(pos, direction), direction)
               [] map[pos] = "LargeBoxRight" ->
                    IF direction[2] # 0
                    THEN both(can_push(map, PosAdd(pos, direction), direction),
                              can_push(map, PosAdd(PosAdd(pos, <<-1, 0>>),
                                                   direction), direction))
                    ELSE can_push(map, PosAdd(pos, direction), direction)

RECURSIVE push_object(_, _, _)
\* Input::push_object: the map it leaves, or panicked
push_object(map, pos, direction) ==
    LET next == PosAdd(pos, direction)
        then(r, p) == IF r.panicked THEN r ELSE push_object(r.map, p, direction)
        start == [map |-> map, panicked |-> FALSE]
        panic == [map |-> map, panicked |-> TRUE]
    IN  IF pos \notin DOMAIN map THEN panic
        ELSE LET cell == map[pos]
                 moved ==
                    CASE cell = "Box" -> then(start, next)
                      [] cell = "Empty" -> start
                      [] cell = "LargeBoxLeft" ->
                            IF direction[2] # 0
                            THEN then(then(start, next),
                                      PosAdd(next, <<1, 0>>))
                            ELSE then(start, next)
                      [] cell = "LargeBoxRight" ->
                            IF direction[2] # 0
                            THEN then(then(start, next),
                                      PosAdd(next, <<-1, 0>>))
                            ELSE then(start, next)
                      [] OTHER -> panic
             IN  IF moved.panicked THEN moved
                 ELSE IF next \notin DOMAIN moved.map THEN panic
                 ELSE IF moved.map[next] # "Empty" THEN panic
                 ELSE [map |-> [moved.map EXCEPT ![next] = cell,
                                                 ![pos] = "Empty"],
                       panicked |-> FALSE]

\* the warehouses of the model: a wall all around, inside it walls, boxes
\* and empty cells; parse_input has put Empty where the robot stands
Inside == (1..WarehouseSide) \X (1..WarehouseSide)

AllCells == (0..(WarehouseSide + 1)) \X (0..(WarehouseSide + 1))

Warehouses ==
    {[p \in AllCells |-> IF p \in Inside THEN f[p] ELSE "Wall"] :
        f \in [Inside -> {"Wall", "Box", "Empty"}]}

\* part1 after parse_input
D15Init ==
    /\ MapIdle /\ VmIdle
    /\ \E map \in Warehouses, robot_position \in Inside :
          /\ map[robot_position] = "Empty"
          /\ day = [phase |-> "run", map |-> map,
                    robot_position |-> robot_position]

\* Input::perform(instruction)
PerformInstruction(instruction) ==
    /\ day.phase = "run"
    /\ LET dir == push_direction(instruction)
           ahead == PosAdd(day.robot_position, dir)
           can == can_push(day.map, ahead, dir)
           r == push_object(day.map, ahead, dir)
       IN  day' = IF day.robot_position \notin DOMAIN day.map
                     \/ day.map[day.robot_position] # "Empty"
                     \/ can = "panic"
                  THEN [day EXCEPT !.phase = "panic"]
                  ELSE IF can = "false" THEN day
                  ELSE IF r.panicked THEN [day EXCEPT !.phase = "panic"]
                  ELSE [day EXCEPT !.map = r.map, !.robot_position = ahead]
    /\ UNCHANGED <<mapVars, vmVars>>

D15Next == \E instruction \in Instructions : PerformInstruction(instruction)

SpecD15 == D15Init /\ [][D15Next]_vars

-----------------------------------------------------------------------------
(* Part IX : claims on aoc15 *)

\* C18: in a wall-enclosed warehouse with single-cell boxes perform never
\* panics, the robot's cell is Empty before every instruction, and an
\* instruction that moves the robot into a free cell moves it one step and
\* leaves every cell of the map unchanged.
C18_PerformNeverPanics ==
    /\ [](day.phase \in {"run", "panic"} =>
            /\ day.phase # "panic"
            /\ day.map[day.robot_position] = "Empty")
    /\ [][\A i \in Instructions :
            (PerformInstruction(i)
                /\ day.map[PosAdd(day.robot_position, push_direction(i))]
                        = "Empty")
            => /\ day'.robot_position
                    = PosAdd(day.robot_position, push_direction(i))
               /\ day'.map = day.map]_vars

====
